---- MODULE Spec2Model ----
(***************************************************************************)
(* The icon scripts of walnutbook as one state machine.  Each script is a  *)
(* sequential program; the state is the filesystem it works on, what it    *)
(* has printed, the image it holds in memory and its position.  An image   *)
(* is a record of its dimensions and a symbolic description of its pixels  *)
(* (which artwork, drawn at which size with which font, resampled through  *)
(* which sizes), so that two images are equal only if the deterministic    *)
(* drawing library would produce the same pixels for both.                 *)
(***************************************************************************)
EXTENDS Integers, Sequences, FiniteSets, TLC

\* How many script runs one behaviour holds.
MaxRuns == 2
\* The text measurements tried: offsets of the glyph's box from the drawing
\* origin up to MaxBearing, box widths and heights up to MaxGlyph.
MaxBearing == 2
MaxGlyph == 3

VARIABLES
    script,      \* the script that is running, "none" between runs
    pc,          \* its position
    i,           \* loop index into the script's list of outputs
    fs,          \* the files: a function from paths to contents
    dirs,        \* the directories that exist
    out,         \* what the run has printed so far
    img,         \* the image the script holds (source_img, original_img, icon)
    ret,         \* what the last renderer call returned to its caller
    exc,         \* the uncaught exception that ended the run, "" if none
    reads,       \* paths the run has read
    writes,      \* paths the run has written
    fs0,         \* the files as they were when the run started
    dirs0,       \* the directories as they were when the run started
    prevFs0,     \* the files as they were when the previous run started
    prevScript,  \* the script of the run before this one
    runs,        \* number of runs started
    fontAvail,   \* whether ImageFont.truetype finds the preferred font
    iconutil,    \* outcome of the last iconutil subprocess
    pilAvail,    \* whether the last "from PIL import ..." succeeded
    glyph,       \* the text glyph last measured and drawn
    geom         \* the draw calls of the canvases rendered so far

vars == <<script, pc, i, fs, dirs, out, img, ret, exc, reads, writes, fs0,
          dirs0, prevFs0, prevScript, runs, fontAvail, iconutil, pilAvail,
          glyph, geom>>

-----------------------------------------------------------------------------
(* Paths and directories *)

icons_dir == "src-tauri/icons"
iconset_dir == "src-tauri/icons/icon.iconset"
cwd == "."

join(dir, name) == [dir |-> dir, name |-> name]

PathStr(p) == IF p.dir = cwd THEN p.name ELSE p.dir \o "/" \o p.name

\* (variant: the wrong file taken as source)
source_mut_icon == join(icons_dir, "icon.png")
source_path == join(icons_dir, "512x512.png")
source_icon == join(icons_dir, "icon_512x512@2x.png")
icns_path == join(icons_dir, "icon.icns")
ico_path == join(icons_dir, "icon.ico")

\* os.makedirs(d, exist_ok=True): d and every missing ancestor exist afterwards.
makedirs(d, ds) ==
    ds \cup (IF d = iconset_dir THEN {"src-tauri", icons_dir, iconset_dir}
             ELSE IF d = icons_dir THEN {"src-tauri", icons_dir}
             ELSE {d})

\* os.path.exists(path) of a file path.
exists(p, f) == p \in DOMAIN f

-----------------------------------------------------------------------------
(* Images *)

NoPx == [art |-> "", n |-> 0, font |-> "", via |-> <<>>]
None == [kind |-> "None", w |-> 0, h |-> 0, px |-> NoPx]

Drawn(art, size, font) ==
    [kind |-> "Image", w |-> size, h |-> size,
     px |-> [art |-> art, n |-> size, font |-> font, via |-> <<>>]]

\* (variant: resampling even when the size is unchanged)
resize_mut_always_resample(im, size) ==
    [kind |-> "Image", w |-> size, h |-> size,
     px |-> [im.px EXCEPT !.via = Append(@, size)]]
\* Image.resize((size, size), LANCZOS): the library returns a copy when the
\* size is unchanged and a resampled image otherwise.
resize(im, size) ==
    IF im.w = size /\ im.h = size THEN im
    ELSE [kind |-> "Image", w |-> size, h |-> size,
          px |-> [im.px EXCEPT !.via = Append(@, size)]]

Encoded(im, format) == [im EXCEPT !.kind = format]
Decoded(file) == [file EXCEPT !.kind = "Image"]

Put(f, p, c) == [q \in (DOMAIN f) \cup {p} |-> IF q = p THEN c ELSE f[q]]

\* Image.save(path, format): writes the file, or raises when the directory
\* of the path does not exist.
save(im, p, format, f, ds) ==
    IF p.dir \in ds
    THEN [fs |-> Put(f, p, Encoded(im, format)), exc |-> ""]
    ELSE [fs |-> f, exc |-> "FileNotFoundError: " \o PathStr(p)]

\* Image.open(path): the decoded file, or FileNotFoundError.
open(p, f) ==
    IF p \in DOMAIN f
    THEN [img |-> Decoded(f[p]), exc |-> ""]
    ELSE [img |-> None, exc |-> "FileNotFoundError: " \o PathStr(p)]

\* (variant: no except clause around truetype)
font_mut_noexcept(avail) ==
    IF avail THEN [font |-> "truetype", exc |-> ""]
    ELSE [font |-> "", exc |-> "OSError: cannot open resource"]
\* try: ImageFont.truetype(...)  except: ImageFont.load_default()
load_font(avail) ==
    IF avail THEN [font |-> "truetype", exc |-> ""]
    ELSE [font |-> "default", exc |-> ""]

-----------------------------------------------------------------------------
(* Size lists *)

\* (variant: the last size left out)
sizes_mut_short == <<16, 32, 44, 71, 89, 107, 128, 142, 150, 256, 284, 310>>
\* The exporters' size list (the same list in create_high_res_icons.main,
\* create_squirrel_icon.main and create_high_res_squirrel_icons).
sizes == <<16, 32, 44, 71, 89, 107, 128, 142, 150, 256, 284, 310, 512>>

PngName(n) == ToString(n) \o "x" \o ToString(n) \o ".png"

\* The files an exporter writes, in order: one per size, then the two
\* fixed-name copies at 512.
targets ==
    [k \in 1..(Len(sizes) + 2) |->
        IF k <= Len(sizes)
        THEN [size |-> sizes[k], path |-> join(icons_dir, PngName(sizes[k]))]
        ELSE IF k = Len(sizes) + 1
        THEN [size |-> 512, path |-> join(icons_dir, "icon.png")]
        ELSE [size |-> 512, path |-> join(icons_dir, "StoreLogo.png")]]

\* The macOS iconset list of create_icons_simple.create_iconset and
\* create_ico.create_iconset_from_existing.
iconset_sizes ==
    << [size |-> 16,   path |-> join(iconset_dir, "icon_16x16.png")],
       [size |-> 32,   path |-> join(iconset_dir, "icon_16x16@2x.png")],
       [size |-> 32,   path |-> join(iconset_dir, "icon_32x32.png")],
       [size |-> 64,   path |-> join(iconset_dir, "icon_32x32@2x.png")],
       [size |-> 128,  path |-> join(iconset_dir, "icon_128x128.png")],
       [size |-> 256,  path |-> join(iconset_dir, "icon_128x128@2x.png")],
       [size |-> 256,  path |-> join(iconset_dir, "icon_256x256.png")],
       [size |-> 512,  path |-> join(iconset_dir, "icon_256x256@2x.png")],
       [size |-> 512,  path |-> join(iconset_dir, "icon_512x512.png")],
       [size |-> 1024, path |-> join(iconset_dir, "icon_512x512@2x.png")] >>

CreatedMsg(p, size) ==
    "Created " \o PathStr(p) \o " (" \o ToString(size) \o "x"
        \o ToString(size) \o ")"

NoGlyph == [fn |-> "", size |-> 0, bbox |-> <<0, 0, 0, 0>>,
            ink |-> <<0, 0, 0, 0>>, drawn |-> <<0, 0, 0, 0>>]

NoGeom == [fn |-> "", k |-> 1, step |-> 0, default_font |-> 0, calls |-> <<>>]

-----------------------------------------------------------------------------
(* Renderers *)

\* create_high_res_icons.create_high_res_icon(size, output_path): draws the
\* WB logo, saves it at output_path, prints, returns nothing.
create_high_res_icon(size, output_path, f, ds) ==
    LET fnt == load_font(fontAvail)
        s == save(Drawn("WB", size, fnt.font), output_path, "PNG", f, ds)
    IN  IF fnt.exc # ""
        THEN [fs |-> f, ret |-> None, exc |-> fnt.exc, msg |-> <<>>]
        ELSE [fs |-> s.fs, ret |-> None, exc |-> s.exc,
              msg |-> IF s.exc = "" THEN <<CreatedMsg(output_path, size)>>
                      ELSE <<>>]

\* (variant: the renderer also saves a file)
squirrel_mut_saves(size, f, ds) ==
    [fs |-> Put(f, join(cwd, "squirrel.png"),
                Encoded(Drawn("squirrel", size, ""), "PNG")),
     ret |-> Drawn("squirrel", size, ""), exc |-> ""]
\* create_squirrel_icon.create_squirrel_icon(size): draws the squirrel on a
\* new canvas and returns it.
create_squirrel_icon(size, f, ds) ==
    [fs |-> f, ret |-> Drawn("squirrel", size, ""), exc |-> ""]

\* create_icons_simple.create_simple_icon(size, output_path): draws the W
\* disc, saves it at output_path, prints, returns nothing.
create_simple_icon(size, output_path, f, ds) ==
    LET fnt == load_font(fontAvail)
        s == save(Drawn("W", size, fnt.font), output_path, "PNG", f, ds)
    IN  IF fnt.exc # ""
        THEN [fs |-> f, ret |-> None, exc |-> fnt.exc, msg |-> <<>>]
        ELSE [fs |-> s.fs, ret |-> None, exc |-> s.exc,
              msg |-> IF s.exc = "" THEN <<CreatedMsg(output_path, size)>>
                      ELSE <<>>]

\* create_icons_simple.create_ico(): draws the 256 x 256 RGB icon and saves
\* it as src-tauri/icons/icon.ico.
create_ico(f, ds) ==
    LET fnt == load_font(fontAvail)
        s == save(Drawn("W-rgb", 256, fnt.font), ico_path, "ICO", f, ds)
    IN  IF fnt.exc # ""
        THEN [fs |-> f, exc |-> fnt.exc, msg |-> <<>>]
        ELSE [fs |-> s.fs, exc |-> s.exc,
              msg |-> IF s.exc = "" THEN <<"Created " \o PathStr(ico_path)>>
                      ELSE <<>>]

-----------------------------------------------------------------------------
(* Runs *)

Scripts == {"hires", "squirrel", "resize", "simple", "ico", "icons"}

\* Where each script starts, and what its __main__ block prints first.
FirstPc(s) ==
    IF s = "resize" THEN "check" ELSE IF s = "icons" THEN "main" ELSE "mkdir"

FirstOut(s) ==
    IF s = "simple" THEN <<"Creating simple high-resolution icons...">>
    ELSE IF s = "ico" THEN <<"Creating .icns file from existing icon...">>
    ELSE IF s = "icons" THEN <<"Creating WalnutBook icons...">>
    ELSE <<>>

Start(s) ==
    /\ pc = "idle"
    /\ runs < MaxRuns
    /\ script' = s
    /\ pc' = FirstPc(s)
    /\ i' = 1
    /\ out' = FirstOut(s)
    /\ img' = None
    /\ ret' = None
    /\ exc' = ""
    /\ reads' = {}
    /\ writes' = {}
    /\ fs0' = fs
    /\ dirs0' = dirs
    /\ prevFs0' = fs0
    /\ runs' = runs + 1
    /\ iconutil' = "not run"
    /\ UNCHANGED <<fs, dirs, prevScript, fontAvail, pilAvail, glyph, geom>>

\* The process exits, normally or with a traceback.
Exit ==
    /\ pc \in {"done", "raised"}
    /\ pc' = "idle"
    /\ prevScript' = script
    /\ script' = "none"
    /\ UNCHANGED <<i, fs, dirs, out, img, ret, exc, reads, writes, fs0, dirs0,
                   prevFs0, runs, fontAvail, iconutil, pilAvail, glyph,
                   geom>>

\* An uncaught exception ends the run where it is.
Raise(e) ==
    /\ pc' = "raised"
    /\ exc' = e

\* What no step inside a run changes.
Env == <<fontAvail, iconutil, pilAvail, glyph, geom, fs0, dirs0, prevFs0,
         prevScript, runs, script>>

(* create_high_res_icons.py *)

\* (variant: the directory emptied before it is filled)
HiResMakedirs_mut_rmtree ==
    /\ script = "hires" /\ pc = "mkdir"
    /\ dirs' = makedirs(icons_dir, dirs)
    /\ fs' = [p \in {q \in DOMAIN fs : q.dir \notin {icons_dir, iconset_dir}}
                |-> fs[p]]
    /\ pc' = "write"
    /\ UNCHANGED <<i, out, img, ret, exc, reads, writes>>
    /\ UNCHANGED Env
HiResMakedirs ==
    /\ script = "hires" /\ pc = "mkdir"
    /\ dirs' = makedirs(icons_dir, dirs)
    /\ pc' = "write"
    /\ UNCHANGED <<i, fs, out, img, ret, exc, reads, writes>>
    /\ UNCHANGED Env

HiResWrite ==
    /\ script = "hires" /\ pc = "write"
    /\ LET t == targets[i]
           r == create_high_res_icon(t.size, t.path, fs, dirs)
       IN  /\ fs' = r.fs
           /\ ret' = r.ret
           /\ IF r.exc # ""
              THEN Raise(r.exc) /\ UNCHANGED <<i, out, writes>>
              ELSE /\ writes' = writes \cup {t.path}
                   /\ exc' = exc
                   /\ IF i < Len(targets)
                      THEN /\ i' = i + 1 /\ pc' = pc
                           /\ out' = out \o r.msg
                      ELSE /\ i' = i /\ pc' = "done"
                           /\ out' = out \o r.msg \o
                                <<"All splash-style high-resolution icons created!">>
    /\ UNCHANGED <<dirs, img, reads>>
    /\ UNCHANGED Env

(* create_squirrel_icon.py *)

SquirrelMakedirs ==
    /\ script = "squirrel" /\ pc = "mkdir"
    /\ dirs' = makedirs(icons_dir, dirs)
    /\ pc' = "render"
    /\ UNCHANGED <<i, fs, out, img, ret, exc, reads, writes>>
    /\ UNCHANGED Env

\* icon = create_squirrel_icon(size)
SquirrelRender ==
    /\ script = "squirrel" /\ pc = "render"
    /\ LET r == create_squirrel_icon(targets[i].size, fs, dirs)
       IN  /\ fs' = r.fs
           /\ ret' = r.ret
           /\ img' = r.ret
    /\ pc' = "save"
    /\ UNCHANGED <<i, dirs, out, exc, reads, writes>>
    /\ UNCHANGED Env

\* icon.save(output_path, 'PNG', optimize=True); print(...)
SquirrelSave ==
    /\ script = "squirrel" /\ pc = "save"
    /\ LET t == targets[i]
           s == save(img, t.path, "PNG", fs, dirs)
       IN  /\ fs' = s.fs
           /\ IF s.exc # ""
              THEN Raise(s.exc) /\ UNCHANGED <<i, out, writes>>
              ELSE /\ writes' = writes \cup {t.path}
                   /\ exc' = exc
                   /\ IF i < Len(targets)
                      THEN /\ i' = i + 1 /\ pc' = "render"
                           /\ out' = Append(out, CreatedMsg(t.path, t.size))
                      ELSE /\ i' = i /\ pc' = "done"
                           /\ out' = out \o <<CreatedMsg(t.path, t.size),
                                "All squirrel icons created successfully!">>
    /\ UNCHANGED <<dirs, img, ret, reads>>
    /\ UNCHANGED Env

(* create_high_res_squirrel_icons.py *)

\* (variant: the directory created before the source is looked for)
ResizeCheck_mut_mkdir_first ==
    /\ script = "resize" /\ pc = "check"
    /\ dirs' = makedirs(icons_dir, dirs)
    /\ IF exists(source_path, fs)
       THEN pc' = "open" /\ out' = out
       ELSE /\ pc' = "done"
            /\ out' = Append(out, "Source image not found: "
                                    \o PathStr(source_path))
    /\ UNCHANGED <<i, fs, img, ret, exc, reads, writes>>
    /\ UNCHANGED Env
\* if not os.path.exists(source_path): print(...); return
ResizeCheck ==
    /\ script = "resize" /\ pc = "check"
    /\ IF exists(source_path, fs)
       THEN pc' = "open" /\ out' = out
       ELSE /\ pc' = "done"
            /\ out' = Append(out, "Source image not found: "
                                    \o PathStr(source_path))
    /\ UNCHANGED <<i, fs, dirs, img, ret, exc, reads, writes>>
    /\ UNCHANGED Env

\* source_img = Image.open(source_path); print(size)
ResizeOpen ==
    /\ script = "resize" /\ pc = "open"
    /\ LET o == open(source_path, fs)
       IN  IF o.exc # ""
           THEN Raise(o.exc) /\ UNCHANGED <<img, out, reads>>
           ELSE /\ img' = o.img
                /\ reads' = reads \cup {source_path}
                /\ out' = Append(out, "Source image size: ("
                            \o ToString(o.img.w) \o ", "
                            \o ToString(o.img.h) \o ")")
                /\ pc' = "mkdir"
                /\ exc' = exc
    /\ UNCHANGED <<i, fs, dirs, ret, writes>>
    /\ UNCHANGED Env

ResizeMakedirs ==
    /\ script = "resize" /\ pc = "mkdir"
    /\ dirs' = makedirs(icons_dir, dirs)
    /\ pc' = "write"
    /\ UNCHANGED <<i, fs, out, img, ret, exc, reads, writes>>
    /\ UNCHANGED Env

\* source_img.resize((size, size), LANCZOS).save(output_path, 'PNG')
ResizeWrite ==
    /\ script = "resize" /\ pc = "write"
    /\ LET t == targets[i]
           s == save(resize(img, t.size), t.path, "PNG", fs, dirs)
       IN  /\ fs' = s.fs
           /\ IF s.exc # ""
              THEN Raise(s.exc) /\ UNCHANGED <<i, out, writes>>
              ELSE /\ writes' = writes \cup {t.path}
                   /\ exc' = exc
                   /\ IF i < Len(targets)
                      THEN /\ i' = i + 1 /\ pc' = pc
                           /\ out' = Append(out, CreatedMsg(t.path, t.size))
                      ELSE /\ i' = i /\ pc' = "done"
                           /\ out' = out \o <<CreatedMsg(t.path, t.size),
                                "All high-resolution squirrel icons created successfully!">>
    /\ UNCHANGED <<dirs, img, ret, reads>>
    /\ UNCHANGED Env

(* create_icons_simple.py *)

SimpleMakedirs ==
    /\ script = "simple" /\ pc = "mkdir"
    /\ dirs' = makedirs(iconset_dir, dirs)
    /\ pc' = "write"
    /\ UNCHANGED <<i, fs, out, img, ret, exc, reads, writes>>
    /\ UNCHANGED Env

\* create_iconset's loop: create_simple_icon(size, output_path)
SimpleWrite ==
    /\ script = "simple" /\ pc = "write"
    /\ LET t == iconset_sizes[i]
           r == create_simple_icon(t.size, t.path, fs, dirs)
       IN  /\ fs' = r.fs
           /\ ret' = r.ret
           /\ IF r.exc # ""
              THEN Raise(r.exc) /\ UNCHANGED <<i, out, writes>>
              ELSE /\ writes' = writes \cup {t.path}
                   /\ exc' = exc
                   /\ IF i < Len(iconset_sizes)
                      THEN /\ i' = i + 1 /\ pc' = pc
                           /\ out' = out \o r.msg
                      ELSE /\ i' = i /\ pc' = "icns"
                           /\ out' = out \o r.msg \o
                                <<"All icons created in iconset directory">>
    /\ UNCHANGED <<dirs, img, reads>>
    /\ UNCHANGED Env

\* create_icons_simple's create_ico(), then the completion message.
SimpleCreateIco ==
    /\ script = "simple" /\ pc = "ico"
    /\ LET r == create_ico(fs, dirs)
       IN  /\ fs' = r.fs
           /\ IF r.exc # ""
              THEN Raise(r.exc) /\ UNCHANGED <<out, writes>>
              ELSE /\ writes' = writes \cup {ico_path}
                   /\ exc' = exc
                   /\ pc' = "done"
                   /\ out' = out \o r.msg \o <<"Icon creation complete!">>
    /\ UNCHANGED <<i, dirs, img, ret, reads>>
    /\ UNCHANGED Env

(* create_ico.py *)

IcoMakedirs ==
    /\ script = "ico" /\ pc = "mkdir"
    /\ dirs' = makedirs(iconset_dir, dirs)
    /\ pc' = "open"
    /\ UNCHANGED <<i, fs, out, img, ret, exc, reads, writes>>
    /\ UNCHANGED Env

\* original_img = Image.open(source_icon), outside any try.
IcoOpen ==
    /\ script = "ico" /\ pc = "open"
    /\ LET o == open(source_icon, fs)
       IN  IF o.exc # ""
           THEN Raise(o.exc) /\ UNCHANGED <<img, reads>>
           ELSE /\ img' = o.img
                /\ reads' = reads \cup {source_icon}
                /\ pc' = "write"
                /\ exc' = exc
    /\ UNCHANGED <<i, fs, dirs, out, ret, writes>>
    /\ UNCHANGED Env

IcoWrite ==
    /\ script = "ico" /\ pc = "write"
    /\ LET t == iconset_sizes[i]
           s == save(resize(img, t.size), t.path, "PNG", fs, dirs)
       IN  /\ fs' = s.fs
           /\ IF s.exc # ""
              THEN Raise(s.exc) /\ UNCHANGED <<i, out, writes>>
              ELSE /\ writes' = writes \cup {t.path}
                   /\ exc' = exc
                   /\ IF i < Len(iconset_sizes)
                      THEN /\ i' = i + 1 /\ pc' = pc
                           /\ out' = Append(out, CreatedMsg(t.path, t.size))
                      ELSE /\ i' = i /\ pc' = "icns"
                           /\ out' = out \o <<CreatedMsg(t.path, t.size),
                                "All icons created in iconset directory">>
    /\ UNCHANGED <<dirs, img, ret, reads>>
    /\ UNCHANGED Env

\* (variant: FileNotFoundError not caught)
icns_mut_uncaught(outcome, f) ==
    IF outcome = "ok"
    THEN [fs |-> f, exc |-> "", msg |-> <<"Created " \o PathStr(icns_path)>>,
          reads |-> {}]
    ELSE IF outcome = "nonzero"
    THEN [fs |-> f, exc |-> "", reads |-> {},
          msg |-> <<"Error creating .icns file: non-zero exit status">>]
    ELSE [fs |-> f, exc |-> "FileNotFoundError: iconutil", reads |-> {},
          msg |-> <<>>]
\* create_icns() of create_icons_simple.py and of create_ico.py (the same
\* code): run iconutil, report a failure and go on.  A successful iconutil
\* has read the iconset and written icon.icns.
create_icns(outcome, f) ==
    LET big == iconset_sizes[Len(iconset_sizes)].path
        set == {iconset_sizes[k].path : k \in 1..Len(iconset_sizes)}
    IN  IF outcome = "ok"
        THEN [fs |-> IF big \in DOMAIN f
                     THEN Put(f, icns_path, Encoded(f[big], "ICNS")) ELSE f,
              exc |-> "", reads |-> set \cap DOMAIN f,
              msg |-> <<"Created " \o PathStr(icns_path)>>]
        ELSE IF outcome = "nonzero"
        THEN [fs |-> f, exc |-> "", reads |-> {},
              msg |-> <<"Error creating .icns file: non-zero exit status">>]
        ELSE [fs |-> f, exc |-> "", reads |-> {},
              msg |-> <<"iconutil not found. Make sure you're on macOS.">>]

CreateIcns ==
    /\ script \in {"simple", "ico"} /\ pc = "icns"
    /\ \E outcome \in {"ok", "nonzero", "absent"} :
         LET r == create_icns(outcome, fs)
         IN  /\ iconutil' = outcome
             /\ fs' = r.fs
             /\ reads' = reads \cup r.reads
             /\ IF r.exc # ""
                THEN Raise(r.exc) /\ UNCHANGED <<out, writes>>
                ELSE /\ exc' = exc
                     /\ writes' = IF outcome = "ok"
                                  THEN writes \cup {icns_path} ELSE writes
                     /\ IF script = "simple"
                        THEN pc' = "ico" /\ out' = out \o r.msg
                        ELSE /\ pc' = "done"
                             /\ out' = out \o r.msg \o
                                         <<"Icon creation complete!">>
    /\ UNCHANGED <<i, dirs, img, ret>>
    /\ UNCHANGED <<fontAvail, pilAvail, glyph, geom, fs0, dirs0, prevFs0,
                   prevScript, runs, script>>

(* create_icons.py *)

\* Whether the name Image is bound in the scope main runs in: the module
\* imports os, base64 and BytesIO only; PIL's Image is imported inside
\* create_simple_icon.
ImageBoundInMain == FALSE

walnut_sizes == <<32, 128, 256, 512>>

WalnutName(n) == "walnut_icon_" \o PngName(n)

Merge(f, g) ==
    [q \in (DOMAIN f) \cup (DOMAIN g) |-> IF q \in DOMAIN g THEN g[q] ELSE f[q]]

\* create_icons.create_fallback_icon(): writes the SVG, returns None.
create_fallback_icon(f) ==
    Put(f, join(cwd, "walnut_icon_simple.svg"),
        [kind |-> "SVG", w |-> 512, h |-> 512,
         px |-> [art |-> "walnut-fallback", n |-> 512, font |-> "",
                 via |-> <<>>]])

\* create_icons.main(): the whole function.
main_create_icons(pil, f, ds) ==
    LET im == Drawn("walnut-book", 512, load_font(fontAvail).font)
        sized == [p \in {join(cwd, WalnutName(walnut_sizes[k])) :
                           k \in 1..Len(walnut_sizes)} |->
                    LET k == CHOOSE k \in 1..Len(walnut_sizes) :
                                 p = join(cwd, WalnutName(walnut_sizes[k]))
                    IN  Encoded(resize(im, walnut_sizes[k]), "PNG")]
        f1 == Put(Merge(f, sized), join(cwd, "walnut_icon.png"),
                  Encoded(im, "PNG"))
        copies == [p \in {join(icons_dir, "icon.png"),
                          join(icons_dir, "128x128.png"),
                          join(icons_dir, "32x32.png")} |->
                     IF p.name = "icon.png"
                     THEN f1[join(cwd, "walnut_icon.png")]
                     ELSE f1[join(cwd, "walnut_icon_" \o p.name)]]
    IN  IF ~pil
        THEN [fs |-> create_fallback_icon(f), exc |-> "", reads |-> {},
              writes |-> {join(cwd, "walnut_icon_simple.svg")},
              msg |-> <<"PIL/Pillow not available. Creating simple icon...",
                        "Created simple SVG icon: walnut_icon_simple.svg",
                        "Could not create PNG icons. Please install Pillow: pip3 install Pillow">>]
        ELSE IF ~ImageBoundInMain
        THEN [fs |-> f, exc |-> "NameError: name 'Image' is not defined",
              reads |-> {}, writes |-> {}, msg |-> <<>>]
        ELSE IF icons_dir \in ds
        THEN [fs |-> Merge(f1, copies), exc |-> "",
              reads |-> {join(cwd, "walnut_icon.png"),
                         join(cwd, WalnutName(128)),
                         join(cwd, WalnutName(32))},
              writes |-> (DOMAIN sized) \cup {join(cwd, "walnut_icon.png")}
                            \cup DOMAIN copies,
              msg |-> <<"Created walnut_icon.png",
                        "Copied icons to src-tauri/icons/">>]
        ELSE [fs |-> f1, exc |-> "", reads |-> {},
              writes |-> (DOMAIN sized) \cup {join(cwd, "walnut_icon.png")},
              msg |-> <<"Created walnut_icon.png">>]

IconsMain ==
    /\ script = "icons" /\ pc = "main"
    /\ \E pil \in BOOLEAN :
         LET r == main_create_icons(pil, fs, dirs)
         IN  /\ pilAvail' = pil
             /\ fs' = r.fs
             /\ reads' = reads \cup r.reads
             /\ writes' = writes \cup r.writes
             /\ out' = out \o r.msg
             /\ IF r.exc # "" THEN Raise(r.exc)
                ELSE pc' = "done" /\ exc' = exc
    /\ UNCHANGED <<i, dirs, img, ret>>
    /\ UNCHANGED <<fontAvail, iconutil, glyph, geom, fs0, dirs0, prevFs0,
                   prevScript, runs, script>>

-----------------------------------------------------------------------------

UserImage(name, dim) ==
    [kind |-> "PNG", w |-> dim, h |-> dim,
     px |-> [art |-> name, n |-> dim, font |-> "", via |-> <<>>]]

InitFiles(srcDim, icoSrc) ==
    LET ps == (IF srcDim > 0 THEN {source_path} ELSE {})
              \cup (IF icoSrc THEN {source_icon} ELSE {})
    IN  [p \in ps |-> IF p = source_path THEN UserImage("squirrel.png", srcDim)
                      ELSE UserImage("icon.png", 1024)]

Init ==
    /\ script = "none"
    /\ pc = "idle"
    /\ i = 1
    /\ \E dirsExist \in BOOLEAN, srcDim \in {0, 512, 1024}, icoSrc \in BOOLEAN :
          /\ (~dirsExist) => (srcDim = 0 /\ ~icoSrc)
          /\ dirs = IF dirsExist THEN {cwd, "src-tauri", icons_dir} ELSE {cwd}
          /\ fs = InitFiles(srcDim, icoSrc)
    /\ out = <<>>
    /\ img = None
    /\ ret = None
    /\ exc = ""
    /\ reads = {}
    /\ writes = {}
    /\ fs0 = fs
    /\ dirs0 = dirs
    /\ prevFs0 = fs
    /\ prevScript = "none"
    /\ runs = 0
    /\ fontAvail \in BOOLEAN
    /\ iconutil = "not run"
    /\ pilAvail = TRUE
    /\ glyph = NoGlyph
    /\ geom = NoGeom

Next ==
    \/ \E s \in Scripts : Start(s)
    \/ Exit
    \/ HiResMakedirs
    \/ HiResWrite
    \/ SquirrelMakedirs
    \/ SquirrelRender
    \/ SquirrelSave
    \/ ResizeCheck
    \/ ResizeOpen
    \/ ResizeMakedirs
    \/ ResizeWrite
    \/ SimpleMakedirs
    \/ SimpleWrite
    \/ CreateIcns
    \/ SimpleCreateIco
    \/ IcoMakedirs
    \/ IcoOpen
    \/ IcoWrite
    \/ IconsMain

Spec == Init /\ [][Next]_vars

-----------------------------------------------------------------------------
(* Text placement, on its own: the inputs are drawn by InitGlyph. *)

Max(a, b) == IF a >= b THEN a ELSE b
Min(a, b) == IF a <= b THEN a ELSE b

ClipTo(box, n) ==
    <<Max(box[1], 0), Max(box[2], 0), Min(box[3], n), Min(box[4], n)>>

\* create_icons_simple.create_simple_icon: bbox = draw.textbbox((0, 0), ...);
\* x, y from the box's width and height; draw.text((x, y), ...).  The ink of
\* text drawn at (x, y) is the measured box moved by (x, y).
text_simple(size, bbox) ==
    LET text_width == bbox[3] - bbox[1]
        text_height == bbox[4] - bbox[2]
        x == (size - text_width) \div 2
        y == (size - text_height) \div 2
        ink == <<x + bbox[1], y + bbox[2], x + bbox[3], y + bbox[4]>>
    IN  [ink |-> ink, drawn |-> ClipTo(ink, size)]

\* create_high_res_icons.create_high_res_icon: the text is drawn at (0, 0)
\* into a mask of text_width x text_height, and the gradient is pasted
\* through the mask at (text_x, text_y).
text_hires(size, bbox) ==
    LET text_width == bbox[3] - bbox[1]
        text_height == bbox[4] - bbox[2]
        text_x == (size - text_width) \div 2
        text_y == (size - text_height) \div 2
        inMask == <<Max(bbox[1], 0), Max(bbox[2], 0),
                    Min(bbox[3], text_width), Min(bbox[4], text_height)>>
    IN  [ink |-> <<text_x + bbox[1], text_y + bbox[2],
                   text_x + bbox[3], text_y + bbox[4]>>,
         drawn |-> ClipTo(<<text_x + inMask[1], text_y + inMask[2],
                            text_x + inMask[3], text_y + inMask[4]>>, size)]

GlyphSizes ==
    {sizes[k] : k \in 1..Len(sizes)}
        \cup {iconset_sizes[k].size : k \in 1..Len(iconset_sizes)}

InitGlyph ==
    /\ script = "none"
    /\ pc = "idle"
    /\ i = 1
    /\ dirs = {cwd}
    /\ fs = InitFiles(0, FALSE)
    /\ out = <<>>
    /\ img = None
    /\ ret = None
    /\ exc = ""
    /\ reads = {}
    /\ writes = {}
    /\ fs0 = fs
    /\ dirs0 = dirs
    /\ prevFs0 = fs
    /\ prevScript = "none"
    /\ runs = 0
    /\ fontAvail \in BOOLEAN
    /\ iconutil = "not run"
    /\ pilAvail = TRUE
    /\ \E n \in GlyphSizes, l \in 0..MaxBearing, t \in 0..MaxBearing,
          w \in 1..MaxGlyph, h \in 1..MaxGlyph :
          glyph = [NoGlyph EXCEPT !.size = n, !.bbox = <<l, t, l + w, t + h>>]
    /\ geom = NoGeom

DrawTextSimple ==
    /\ glyph.fn = ""
    /\ LET r == text_simple(glyph.size, glyph.bbox)
       IN  glyph' = [glyph EXCEPT !.fn = "create_simple_icon",
                                  !.ink = r.ink, !.drawn = r.drawn]
    /\ UNCHANGED <<script, pc, i, fs, dirs, out, img, ret, exc, reads, writes,
                   fs0, dirs0, prevFs0, prevScript, runs, fontAvail, iconutil,
                   pilAvail, geom>>

DrawTextHiRes ==
    /\ glyph.fn = ""
    /\ LET r == text_hires(glyph.size, glyph.bbox)
       IN  glyph' = [glyph EXCEPT !.fn = "create_high_res_icon",
                                  !.ink = r.ink, !.drawn = r.drawn]
    /\ UNCHANGED <<script, pc, i, fs, dirs, out, img, ret, exc, reads, writes,
                   fs0, dirs0, prevFs0, prevScript, runs, fontAvail, iconutil,
                   pilAvail, geom>>

NextGlyph == DrawTextSimple \/ DrawTextHiRes

SpecGlyph == InitGlyph /\ [][NextGlyph]_vars

-----------------------------------------------------------------------------
(* The geometry of the three renderers, on its own: one run of a script     *)
(* renders its list of canvases, one draw call at a time.  A draw call is   *)
(* recorded with its coordinates xy (flat: x0, y0, x1, y1, ...) in units of *)
(* 1/den pixel, its line width (0 if the call gives none) and, for text,    *)
(* the pixel size of the font it is drawn with.                             *)

Call(shape, op, xy, den, width, font) ==
    [shape |-> shape, op |-> op, xy |-> xy, den |-> den, width |-> width,
     font |-> font]

\* create_squirrel_icon: scale = size / 32.0; scale_dim(dim) = int(dim * scale).
\* dim * size / 32 is exact in floating point, and int truncates.
scale_dim(dim, size) == (dim * size) \div 32

\* (variant: a thicker minimum outline)
width_mut_min2(size) == Max(2, scale_dim(1, size))
\* width=max(1, scale_dim(1))
outline_width(size) == Max(1, scale_dim(1, size))

\* (variant: an ear no larger than its inset)
ear_mut_small(size) == scale_dim(1, size)
ear_size(size) == scale_dim(4, size)

\* The draw calls of create_squirrel_icon(size), in order.
squirrel_draw(size) ==
    LET sd(d) == scale_dim(d, size)
        width == outline_width(size)
        body_width == sd(20)
        body_height == sd(16)
        body_x == sd(6)
        body_y == sd(8)
        belly_width == sd(12)
        belly_height == sd(8)
        belly_x == body_x + sd(4)
        belly_y == body_y + sd(4)
        head_size == sd(12)
        head_x == body_x + sd(8)
        head_y == body_y - sd(2)
        left_ear_x == head_x + sd(1)
        left_ear_y == head_y - sd(2)
        right_ear_x == head_x + sd(7)
        right_ear_y == head_y - sd(2)
        eye_size == sd(2)
        left_eye_x == head_x + sd(3)
        left_eye_y == head_y + sd(4)
        right_eye_x == head_x + sd(7)
        right_eye_y == head_y + sd(4)
        mouth_x == head_x + sd(5)
        mouth_y == head_y + sd(8)
        tail_points ==
            << body_x + sd(2), body_y + sd(4),
               body_x - sd(4), body_y - sd(2),
               body_x - sd(6), body_y - sd(6),
               body_x - sd(4), body_y - sd(8),
               body_x,         body_y - sd(6),
               body_x + sd(2), body_y - sd(4) >>
        acorn_x == body_x + sd(12)
        acorn_y == body_y + sd(6)
        acorn_width == sd(6)
        acorn_height == sd(8)
        cap_x == acorn_x + sd(1)
        cap_y == acorn_y - sd(2)
        cap_width == sd(4)
        cap_height == sd(3)
    IN  << Call("body", "ellipse",
                <<body_x, body_y, body_x + body_width, body_y + body_height>>,
                1, width, 0),
           Call("belly", "ellipse",
                <<belly_x, belly_y, belly_x + belly_width,
                  belly_y + belly_height>>, 1, width, 0),
           Call("head", "ellipse",
                <<head_x, head_y, head_x + head_size, head_y + head_size>>,
                1, width, 0),
           Call("left_ear", "ellipse",
                <<left_ear_x, left_ear_y, left_ear_x + ear_size(size),
                  left_ear_y + ear_size(size)>>, 1, width, 0),
           Call("left_ear_inner", "ellipse",
                <<left_ear_x + sd(1), left_ear_y + sd(1),
                  left_ear_x + ear_size(size) - sd(1),
                  left_ear_y + ear_size(size) - sd(1)>>, 1, 0, 0),
           Call("right_ear", "ellipse",
                <<right_ear_x, right_ear_y, right_ear_x + ear_size(size),
                  right_ear_y + ear_size(size)>>, 1, width, 0),
           Call("right_ear_inner", "ellipse",
                <<right_ear_x + sd(1), right_ear_y + sd(1),
                  right_ear_x + ear_size(size) - sd(1),
                  right_ear_y + ear_size(size) - sd(1)>>, 1, 0, 0),
           Call("left_eye", "arc",
                <<left_eye_x, left_eye_y, left_eye_x + eye_size,
                  left_eye_y + eye_size>>, 1, width, 0),
           Call("right_eye", "arc",
                <<right_eye_x, right_eye_y, right_eye_x + eye_size,
                  right_eye_y + eye_size>>, 1, width, 0),
           Call("mouth", "arc",
                <<mouth_x, mouth_y, mouth_x + sd(2), mouth_y + sd(2)>>,
                1, width, 0),
           Call("tail", "polygon", tail_points, 1, width, 0),
           Call("acorn", "ellipse",
                <<acorn_x, acorn_y, acorn_x + acorn_width,
                  acorn_y + acorn_height>>, 1, width, 0),
           Call("cap", "ellipse",
                <<cap_x, cap_y, cap_x + cap_width, cap_y + cap_height>>,
                1, width, 0) >>

\* The pixel size of ImageFont.load_default(), whatever the canvas: it is the
\* library's choice, the same for every size.
default_font_sizes == {10, 11}

\* The draw calls of create_icons_simple.create_simple_icon(size, ...): the
\* two discs at size*0.1 .. size*0.9 and size*0.3 .. size*0.7 (in tenths of
\* a pixel) and the text, in the font of max(size // 6, 8) pixels or in the
\* default font.
simple_draw(size, avail, default) ==
    LET font_size == Max(size \div 6, 8)
    IN  << Call("background", "ellipse",
                <<size * 1, size * 1, size * 9, size * 9>>, 10, 0, 0),
           Call("walnut", "ellipse",
                <<size * 3, size * 3, size * 7, size * 7>>, 10, 0, 0),
           Call("W", "text", <<>>, 10, 0,
                IF avail THEN font_size ELSE default) >>

\* The draw calls of create_high_res_icons.create_high_res_icon(size, ...):
\* the shadow disc, its blur (the radius is recorded as the call's width),
\* the white disc and the text.
hires_draw(size, avail, default) ==
    LET logo_size == (size * 75) \div 100
        logo_x == (size - logo_size) \div 2
        logo_y == (size - logo_size) \div 2
        shadow_offset == size \div 32
        shadow_radius == size \div 16
        font_size == (logo_size * 55) \div 100
    IN  << Call("shadow", "ellipse",
                <<logo_x + shadow_offset, logo_y + shadow_offset,
                  logo_x + logo_size + shadow_offset,
                  logo_y + logo_size + shadow_offset>>, 1, 0, 0),
           Call("shadow", "GaussianBlur", <<>>, 1, shadow_radius, 0),
           Call("circle", "ellipse",
                <<logo_x, logo_y, logo_x + logo_size, logo_y + logo_size>>,
                1, 0, 0),
           Call("WB", "text", <<>>, 1, 0,
                IF avail THEN font_size ELSE default) >>

Renderers ==
    {"create_squirrel_icon", "create_simple_icon", "create_high_res_icon"}

\* The canvas sizes of one run of the script that calls the renderer fn.
run_sizes(fn) ==
    IF fn = "create_simple_icon"
    THEN [k \in 1..Len(iconset_sizes) |-> iconset_sizes[k].size]
    ELSE [k \in 1..Len(targets) |-> targets[k].size]

InitGeom ==
    /\ script = "none"
    /\ pc = "idle"
    /\ i = 1
    /\ dirs = {cwd}
    /\ fs = InitFiles(0, FALSE)
    /\ out = <<>>
    /\ img = None
    /\ ret = None
    /\ exc = ""
    /\ reads = {}
    /\ writes = {}
    /\ fs0 = fs
    /\ dirs0 = dirs
    /\ prevFs0 = fs
    /\ prevScript = "none"
    /\ runs = 0
    /\ fontAvail \in BOOLEAN
    /\ iconutil = "not run"
    /\ pilAvail = TRUE
    /\ glyph = NoGlyph
    /\ \E fn \in Renderers, d \in default_font_sizes :
          geom = [NoGeom EXCEPT !.fn = fn, !.default_font = d]

\* The next draw call of the canvas being rendered, cs being all its calls
\* and n its size; after the last one the run moves on to its next canvas.
DrawNext(cs, n) ==
    LET done == IF geom.step = 0 THEN <<>> ELSE geom.calls[n]
        last == geom.step + 1 = Len(cs)
    IN  geom' = [geom EXCEPT
                   !.calls = [m \in DOMAIN geom.calls \cup {n} |->
                                IF m = n THEN Append(done, cs[geom.step + 1])
                                ELSE geom.calls[m]],
                   !.step = IF last THEN 0 ELSE geom.step + 1,
                   !.k = IF last THEN geom.k + 1 ELSE geom.k]

SquirrelDraw ==
    /\ geom.fn = "create_squirrel_icon"
    /\ geom.k <= Len(run_sizes(geom.fn))
    /\ LET size == run_sizes(geom.fn)[geom.k]
       IN  DrawNext(squirrel_draw(size), size)
    /\ UNCHANGED <<script, pc, i, fs, dirs, out, img, ret, exc, reads, writes,
                   fs0, dirs0, prevFs0, prevScript, runs, fontAvail, iconutil,
                   pilAvail, glyph>>

SimpleDraw ==
    /\ geom.fn = "create_simple_icon"
    /\ geom.k <= Len(run_sizes(geom.fn))
    /\ LET size == run_sizes(geom.fn)[geom.k]
       IN  DrawNext(simple_draw(size, fontAvail, geom.default_font), size)
    /\ UNCHANGED <<script, pc, i, fs, dirs, out, img, ret, exc, reads, writes,
                   fs0, dirs0, prevFs0, prevScript, runs, fontAvail, iconutil,
                   pilAvail, glyph>>

HiResDraw ==
    /\ geom.fn = "create_high_res_icon"
    /\ geom.k <= Len(run_sizes(geom.fn))
    /\ LET size == run_sizes(geom.fn)[geom.k]
       IN  DrawNext(hires_draw(size, fontAvail, geom.default_font), size)
    /\ UNCHANGED <<script, pc, i, fs, dirs, out, img, ret, exc, reads, writes,
                   fs0, dirs0, prevFs0, prevScript, runs, fontAvail, iconutil,
                   pilAvail, glyph>>

NextGeom == SquirrelDraw \/ SimpleDraw \/ HiResDraw

SpecGeom == InitGeom /\ [][NextGeom]_vars

-----------------------------------------------------------------------------
(* Properties *)

Range(q) == {q[k] : k \in 1..Len(q)}

IsPng(p, n) ==
    /\ p \in DOMAIN fs
    /\ fs[p].kind = "PNG"
    /\ fs[p].w = n
    /\ fs[p].h = n

IconsetPaths == {iconset_sizes[k].path : k \in 1..Len(iconset_sizes)}

\* C1: after a complete run of create_high_res_icons.main, of
\* create_squirrel_icon.main, or of create_high_res_squirrel_icons with its
\* source present, src-tauri/icons holds an N x N file NxN.png for each of
\* the thirteen sizes, and icon.png and StoreLogo.png of 512 x 512.
C1_ExportComplete ==
    (/\ script \in {"hires", "squirrel", "resize"}
     /\ pc = "done"
     /\ script = "resize" => join("src-tauri/icons", "512x512.png") \in DOMAIN fs0)
    => /\ \A n \in {16, 32, 44, 71, 89, 107, 128, 142, 150, 256, 284, 310, 512} :
            IsPng(join("src-tauri/icons", PngName(n)), n)
       /\ IsPng(join("src-tauri/icons", "icon.png"), 512)
       /\ IsPng(join("src-tauri/icons", "StoreLogo.png"), 512)

C1_Witness ==
    /\ script = "resize"
    /\ pc = "done"
    /\ source_path \in DOMAIN fs0
    /\ fs0[source_path].w = 1024
    /\ IsPng(join(icons_dir, "StoreLogo.png"), 512)

\* C2: when iconutil is absent or exits non-zero, create_icns does not
\* raise: the ten iconset PNGs written before it are still there, a failure
\* message has been printed, and the script goes on; in create_icons_simple
\* create_ico runs next and the run ends with its completion message.
C2_IcnsFailureNotFatal ==
    (script \in {"simple", "ico"} /\ iconutil \in {"nonzero", "absent"})
    => /\ exc = ""
       /\ \A k \in 1..Len(iconset_sizes) :
            /\ iconset_sizes[k].path \in writes
            /\ IsPng(iconset_sizes[k].path, iconset_sizes[k].size)
       /\ Cardinality(IconsetPaths) = 10
       /\ IF iconutil = "absent"
          THEN "iconutil not found. Make sure you're on macOS." \in Range(out)
          ELSE "Error creating .icns file: non-zero exit status" \in Range(out)
       /\ script = "simple" =>
            /\ pc \in {"ico", "done"}
            /\ pc = "ico" => ENABLED SimpleCreateIco
            /\ pc = "done" =>
                 /\ ico_path \in writes
                 /\ out[Len(out)] = "Icon creation complete!"
       /\ script = "ico" =>
            /\ pc = "done"
            /\ out[Len(out)] = "Icon creation complete!"

C2_Witness ==
    /\ script = "simple"
    /\ pc = "done"
    /\ iconutil = "absent"
    /\ ico_path \in DOMAIN fs

\* C3: no exception leaves a script's entry point: under a missing source
\* PNG, an unavailable font, an unavailable packaging tool or its non-zero
\* exit, the script that meets the failure ends normally.
C3_NoUncaughtException ==
    LET MissingSource ==
            \/ script = "resize" /\ source_path \notin DOMAIN fs0
            \/ script = "ico" /\ source_icon \notin DOMAIN fs0
        FontUnavailable == script \in {"hires", "simple"} /\ ~fontAvail
        ToolFailure ==
            script \in {"simple", "ico"} /\ iconutil \in {"nonzero", "absent"}
    IN  (MissingSource \/ FontUnavailable \/ ToolFailure)
        => (pc # "raised" /\ exc = "")

\* C4: in create_high_res_squirrel_icons, when src-tauri/icons/512x512.png
\* does not exist the run prints a message and returns normally, and the
\* filesystem is as it was: no directory created, no file written.
C4_MissingSourceNoEffect ==
    (script = "resize" /\ source_path \notin DOMAIN fs0)
    => /\ fs = fs0
       /\ dirs = dirs0
       /\ writes = {}
       /\ exc = ""
       /\ pc \in {"check", "done"}
       /\ pc = "done" =>
            out = <<"Source image not found: src-tauri/icons/512x512.png">>

C4_Witness ==
    /\ script = "resize"
    /\ pc = "done"
    /\ source_path \notin DOMAIN fs0
    /\ icons_dir \notin dirs
    /\ Len(out) = 1

\* C5: with the preferred font unavailable, rendering does not raise for any
\* size: the built-in default font is used and the N x N image is produced.
C5_FontFallback ==
    (~fontAvail /\ script \in {"hires", "simple"})
    => /\ exc = ""
       /\ pc # "raised"
       /\ LET list == IF script = "hires" THEN targets ELSE iconset_sizes
              art == IF script = "hires" THEN "WB" ELSE "W"
          IN  \A k \in 1..Len(list) :
                (pc \notin {"mkdir", "write"} \/ (pc = "write" /\ k < i))
                => /\ IsPng(list[k].path, list[k].size)
                   /\ fs[list[k].path].px.font = "default"
                   /\ fs[list[k].path].px.art = art

C5_Witness ==
    /\ ~fontAvail
    /\ script = "hires"
    /\ pc = "done"
    /\ IsPng(join(icons_dir, "16x16.png"), 16)
    /\ fs[join(icons_dir, "16x16.png")].px.font = "default"

SamePngAsBefore ==
    \A p \in writes :
        (p \in DOMAIN fs /\ fs[p].kind = "PNG")
        => (p \in DOMAIN fs0 /\ fs[p] = fs0[p])

\* C6 as claimed: for every exporter and every initial filesystem, a second
\* run in a row leaves every output PNG as the first run left it.
C6_Idempotent ==
    (pc = "done" /\ prevScript = script) => SamePngAsBefore

\* C6, amended: a second run in a row leaves every output PNG as the first
\* run left it, provided that the source image src-tauri/icons/512x512.png
\* which create_high_res_squirrel_icons reads (and overwrites) was 512 x 512
\* before the first run.
C6_IdempotentGivenSource ==
    (/\ pc = "done"
     /\ prevScript = script
     /\ (script = "resize" /\ source_path \in DOMAIN prevFs0)
          => (prevFs0[source_path].w = 512 /\ prevFs0[source_path].h = 512))
    => SamePngAsBefore

C6_Witness ==
    /\ script = "resize"
    /\ pc = "done"
    /\ prevScript = "resize"
    /\ source_path \in DOMAIN prevFs0
    /\ prevFs0[source_path].w = 512
    /\ join(icons_dir, "16x16.png") \in writes
    /\ fs[join(icons_dir, "16x16.png")] = fs0[join(icons_dir, "16x16.png")]

InOutputDir(p) == p.dir \in {icons_dir, iconset_dir}

\* C7 as claimed: after a run that wrote to the icon directory, the
\* directory holds exactly the files that run wrote; nothing left by an
\* earlier run or another script survives.  (The two source images a user
\* puts there are left out of the count.)
C7_FullyRegenerated ==
    (pc = "done" /\ \E q \in writes : InOutputDir(q))
    => \A p \in DOMAIN fs :
          (InOutputDir(p) /\ p \notin {source_path, source_icon})
          => p \in writes

\* C7, amended: a run overwrites every file it writes and deletes nothing:
\* every file it does not write, whether left by an earlier run, by another
\* script or by the user, is still there unchanged, and the only new files
\* are the ones it wrote.
C7_OverwriteAndKeep ==
    /\ writes \subseteq DOMAIN fs
    /\ \A p \in DOMAIN fs0 :
         /\ p \in DOMAIN fs
         /\ p \notin writes => fs[p] = fs0[p]
    /\ \A p \in DOMAIN fs : p \in DOMAIN fs0 \/ p \in writes
    /\ dirs0 \subseteq dirs

C7_Witness ==
    /\ script = "hires"
    /\ pc = "done"
    /\ prevScript = "simple"
    /\ ico_path \in DOMAIN fs
    /\ ico_path \notin writes
    /\ fs[ico_path] = fs0[ico_path]

\* C8 as claimed: no run reads a file in the directory it writes to, and no
\* file is both read and written by one run.
C8_WriteOnly ==
    \A p \in reads : p \notin writes /\ p.dir \notin {q.dir : q \in writes}

\* C8, amended: create_high_res_icons.main and create_squirrel_icon.main
\* read no file.  create_high_res_squirrel_icons reads one file,
\* src-tauri/icons/512x512.png, in the directory it writes to, and has
\* overwritten it when it completes.  create_ico reads its source
\* src-tauri/icons/icon_512x512@2x.png, which it never writes.  Beyond that
\* the only reads are iconutil's, of the iconset the run wrote, and
\* create_icons.main's copies of files it wrote itself.
C8_ReadsBounded ==
    /\ script \in {"hires", "squirrel"} => reads = {}
    /\ script = "resize" =>
         /\ reads \subseteq {join("src-tauri/icons", "512x512.png")}
         /\ (pc = "done" /\ reads # {}) => reads \subseteq writes
    /\ script = "ico" =>
         /\ join("src-tauri/icons", "icon_512x512@2x.png") \notin writes
         /\ reads \ {join("src-tauri/icons", "icon_512x512@2x.png")}
               \subseteq (IF iconutil = "ok" THEN IconsetPaths \cap writes ELSE {})
    /\ script = "simple" =>
         reads \subseteq (IF iconutil = "ok" THEN IconsetPaths \cap writes ELSE {})
    /\ script = "icons" => reads \subseteq {p \in writes : p.dir = cwd}

C8_Witness ==
    /\ script = "resize"
    /\ pc = "done"
    /\ source_path \in reads
    /\ source_path \in writes

RenderCall ==
    \/ script \in {"hires", "simple"} /\ pc = "write"
    \/ script = "squirrel" /\ pc = "render"

RenderTarget == IF script = "simple" THEN iconset_sizes[i] ELSE targets[i]

IsCanvas(c, n) == c.kind = "Image" /\ c.w = n /\ c.h = n

\* C9 as claimed: each renderer (create_high_res_icon, create_simple_icon of
\* create_icons_simple, create_squirrel_icon) returns the size x size canvas
\* and changes nothing in the filesystem.
C9_RenderersPure ==
    [][RenderCall =>
         /\ IsCanvas(ret', RenderTarget.size)
         /\ fs' = fs
         /\ dirs' = dirs]_vars

\* C9, amended: create_squirrel_icon(size) returns the size x size canvas
\* and has no other effect.  create_high_res_icon(size, output_path) and
\* create_icons_simple.create_simple_icon(size, output_path) return nothing:
\* they save the size x size canvas as a PNG at output_path, which is their
\* only change to the filesystem, and print one line.
C9_RendererEffects ==
    [][/\ (script = "squirrel" /\ pc = "render") =>
            /\ IsCanvas(ret', RenderTarget.size)
            /\ fs' = fs
            /\ dirs' = dirs
            /\ out' = out
       /\ (script \in {"hires", "simple"} /\ pc = "write") =>
            /\ ret' = None
            /\ dirs' = dirs
            /\ RenderTarget.path \in DOMAIN fs'
            /\ fs'[RenderTarget.path].kind = "PNG"
            /\ fs'[RenderTarget.path].w = RenderTarget.size
            /\ fs'[RenderTarget.path].h = RenderTarget.size
            /\ DOMAIN fs' = DOMAIN fs \cup {RenderTarget.path}
            /\ \A p \in DOMAIN fs : p # RenderTarget.path => fs'[p] = fs[p]
            /\ Len(out') >= Len(out) + 1
            /\ out'[Len(out) + 1] =
                 CreatedMsg(RenderTarget.path, RenderTarget.size)]_vars

C9_Witness ==
    /\ script = "squirrel"
    /\ pc = "save"
    /\ i = 3
    /\ IsCanvas(ret, 44)
    /\ join(icons_dir, "44x44.png") \notin DOMAIN fs

Abs(a) == IF a >= 0 THEN a ELSE -a

\* C10: for every size and every box the text measurement returns, the drawn
\* glyph's left and right margins to the canvas edge differ by at most one
\* pixel, so do its top and bottom margins, and the glyph is not clipped.
C10_GlyphCentered ==
    (glyph.fn # "")
    => /\ Abs(glyph.drawn[1] - (glyph.size - glyph.drawn[3])) <= 1
       /\ Abs(glyph.drawn[2] - (glyph.size - glyph.drawn[4])) <= 1
       /\ glyph.drawn = glyph.ink

-----------------------------------------------------------------------------
(* Drawn lengths *)

\* The extent of the coordinates xy along one axis (first = 1 for x, 2 for
\* y), in the units of xy.
Extent(xy, first) ==
    LET cs == {xy[j] : j \in {j \in 1..Len(xy) : j % 2 = first % 2}}
    IN  IF cs = {} THEN 0
        ELSE (CHOOSE a \in cs : \A b \in cs : a >= b)
             - (CHOOSE a \in cs : \A b \in cs : a <= b)

\* The lengths a call draws, in units of 1/den pixel: the horizontal and the
\* vertical extent of its shape, its line width, its font size.
Lengths(c) ==
    <<Extent(c.xy, 1), Extent(c.xy, 2), c.width * c.den, c.font * c.den>>

\* Some fraction f puts both a length of la/da pixels on a canvas of n and a
\* length of lb/db pixels on a canvas of m within one pixel of f times the
\* canvas size: the intervals ((L - 1)/N, (L + 1)/N) of the two overlap.
\* (Open intervals that overlap two by two have a point in common, so a
\* family of lengths has one fraction for all iff every two of them do.)
SameFraction(la, da, n, lb, db, m) ==
    /\ (la - da) * m * db < (lb + db) * n * da
    /\ (lb - db) * n * da < (la + da) * m * db

\* The calls that the canvases of sizes n and m have both got.
BothDrawn(n, m) == 1..Min(Len(geom.calls[n]), Len(geom.calls[m]))

\* Length j of call k is the same fraction of the canvas at sizes n and m.
SimilarAt(n, m, k, j) ==
    SameFraction(Lengths(geom.calls[n][k])[j], geom.calls[n][k].den, n,
                 Lengths(geom.calls[m][k])[j], geom.calls[m][k].den, m)

\* C11 (as stated): within one run, every drawn length (the extents of every
\* shape, the outline width, the font size) is within one pixel of one
\* size-independent fraction of the canvas size, for all sizes of the run.
C11_SelfSimilar ==
    \A n \in DOMAIN geom.calls, m \in DOMAIN geom.calls :
        \A k \in BothDrawn(n, m), j \in 1..4 : SimilarAt(n, m, k, j)

\* The lengths that are one scaled dimension of the canvas size: not the
\* inner ears and the tail of the squirrel, whose extents are sums and
\* differences of separately truncated terms, and the font size only where
\* the preferred font is found and its size is not held at the minimum of 8.
Scaled(n, k, j) ==
    LET c == geom.calls[n][k]
    IN  /\ c.shape \notin {"left_ear_inner", "right_ear_inner", "tail"}
        /\ (j = 4) => /\ fontAvail
                      /\ (geom.fn = "create_simple_icon") => (n \div 6 >= 8)

\* C11 (amended): within one run, every length that is one scaled dimension
\* of the canvas size is within one pixel of one size-independent fraction of
\* the canvas size, for all sizes of the run.
C11_ScaledLengthsSimilar ==
    \A n \in DOMAIN geom.calls, m \in DOMAIN geom.calls :
        \A k \in BothDrawn(n, m), j \in 1..4 :
            (Scaled(n, k, j) /\ Scaled(m, k, j)) => SimilarAt(n, m, k, j)

\* The squirrel has been drawn completely at 16 and at 512 pixels, with the
\* outline held at its minimum of one pixel on the small canvas.
C11_Witness ==
    /\ geom.fn = "create_squirrel_icon"
    /\ {16, 512} \subseteq DOMAIN geom.calls
    /\ Len(geom.calls[16]) = 13
    /\ Len(geom.calls[512]) = 13
    /\ geom.calls[16][1].width = 1
    /\ geom.calls[512][1].width = 16

\* C12: when the drawing library is importable, so that create_icons.py's
\* create_simple_icon returns an image, main completes without an exception
\* and has written walnut_icon_32x32.png, walnut_icon_128x128.png,
\* walnut_icon_256x256.png, walnut_icon_512x512.png and walnut_icon.png;
\* the name Image that main resizes with is bound where main runs.
C12_MainWritesWalnutIcons ==
    (script = "icons" /\ pc \in {"done", "raised"} /\ pilAvail)
    => /\ pc = "done"
       /\ exc = ""
       /\ IsPng(join(cwd, "walnut_icon_32x32.png"), 32)
       /\ IsPng(join(cwd, "walnut_icon_128x128.png"), 128)
       /\ IsPng(join(cwd, "walnut_icon_256x256.png"), 256)
       /\ IsPng(join(cwd, "walnut_icon_512x512.png"), 512)
       /\ IsPng(join(cwd, "walnut_icon.png"), 512)
       /\ ImageBoundInMain

\* C13: in create_squirrel_icon, at every size of 16, 32, 44, 71, 89, 107,
\* 128, 142, 150, 256, 284, 310, 512, every bounding box passed to ellipse or
\* arc is well-formed (x0 <= x1 and y0 <= y1, the inner-ear boxes shrunk by
\* scale_dim(1) on each side included), and every coordinate of every box and
\* of every tail polygon point lies in [0, size].
C13_BoxesInsideCanvas ==
    (geom.fn = "create_squirrel_icon")
    => \A n \in DOMAIN geom.calls :
         \A k \in 1..Len(geom.calls[n]) :
            LET c == geom.calls[n][k]
            IN  /\ (c.op \in {"ellipse", "arc"})
                   => /\ Len(c.xy) = 4
                      /\ c.xy[1] <= c.xy[3]
                      /\ c.xy[2] <= c.xy[4]
                /\ \A j \in 1..Len(c.xy) : 0 <= c.xy[j] /\ c.xy[j] <= n

\* The squirrel has been drawn completely at each of the thirteen sizes; at
\* 16 pixels the inner ear is not shrunk at all (scale_dim(1) = 0), at 512
\* it is, and the tail touches the left and the top edge of the canvas.
C13_Witness ==
    /\ geom.fn = "create_squirrel_icon"
    /\ DOMAIN geom.calls
         = {16, 32, 44, 71, 89, 107, 128, 142, 150, 256, 284, 310, 512}
    /\ \A n \in DOMAIN geom.calls :
          /\ Len(geom.calls[n]) = 13
          /\ geom.calls[n][11].op = "polygon"
          /\ geom.calls[n][11].xy[5] = 0
          /\ geom.calls[n][11].xy[8] = 0
    /\ geom.calls[16][5].xy = geom.calls[16][4].xy
    /\ geom.calls[512][5].xy[1] = geom.calls[512][4].xy[1] + 16
    /\ geom.calls[512][5].xy[3] = geom.calls[512][4].xy[3] - 16

====
